---- MODULE Spec2Model ----
(***************************************************************************)
(* The task list of bartosz-tech/todo-app.                                 *)
(*                                                                         *)
(* Two components own a list of tasks:                                     *)
(*   - src/app/page.tsx   : the list mirrors the Supabase table "todos";   *)
(*                          every mutation awaits the store and then       *)
(*                          patches the list the handler closed over;      *)
(*   - src/app/layout.tsx : the list lives in component state only.        *)
(* `variant` says which component is mounted.  A text is a sequence of     *)
(* characters, so that String.prototype.trim is computed, not assumed.     *)
(***************************************************************************)
EXTENDS Integers, Sequences, FiniteSets, TLC

\* ------------------------------------------------------------------ bounds
MaxLen   == 1      \* longest text typed into the form (one more in TypingSpec)
MaxOps   == 2      \* handler invocations explored per run of page.tsx
MaxLocal == 3      \* handler invocations explored per run of layout.tsx
MaxClock == 5      \* last reading of Date.now() explored

\* --------------------------------------------------------------- constants
Priorities == {"low", "medium", "high"}
\* the select of the form: left at its default, or changed
FormPriorities == {"medium", "high"}
WhiteSpace == {" "}
Chars      == {" ", "a"}
NoSuchId   == 0     \* an id no task carries
Clock0     == 4     \* first reading of Date.now(), past the seeded ids

Texts(len) == UNION {[1..n -> Chars] : n \in 0..len}

Inputs == Texts(MaxLen)

LongInputs == Texts(MaxLen + 1)

\* ------------------------------------------------------------------ String
RECURSIVE TrimStart(_)
TrimStart(s) ==
    IF s = <<>> THEN s
    ELSE IF Head(s) \in WhiteSpace THEN TrimStart(Tail(s)) ELSE s

RECURSIVE TrimEnd(_)
TrimEnd(s) ==
    IF s = <<>> THEN s
    ELSE IF s[Len(s)] \in WhiteSpace THEN TrimEnd(SubSeq(s, 1, Len(s) - 1)) ELSE s

Trim(s) == TrimEnd(TrimStart(s))

\* -------------------------------------------------------------------- Todo
Todo(i, t, d, p) == [id |-> i, text |-> t, done |-> d, priority |-> p]

NoRow == Todo(NoSuchId, <<>>, FALSE, "medium")

IdsOf(list) == {list[k].id : k \in DOMAIN list}

Find(list, i) == {k \in DOMAIN list : list[k].id = i}

activeTodosCount(list) == Len(SelectSeq(list, LAMBDA t : ~t.done))

VARIABLES
    variant,     \* "remote" (page.tsx) or "local" (layout.tsx)
    todos,       \* useState<Todo[]>: the in-memory list
    loading,     \* useState(true) of page.tsx
    fetched,     \* initial select: "pending", "ok", "err" (or "none")
    table,       \* rows of the remote table, ordered by created_at descending
    nextId,      \* next primary key the store assigns
    calls,       \* handlers suspended at their await, in start order
    now,         \* Date.now()
    last,        \* the handler invocation that finished last
    last2,       \* the one that finished before it
    anyFail,     \* some store call has failed
    anyOverlap,  \* some handler started while another was suspended
    nOps         \* handler invocations so far

vars == <<variant, todos, loading, fetched, table, nextId, calls, now,
          last, last2, anyFail, anyOverlap, nOps>>

remoteVars == <<table, nextId>>

\* ------------------------------------------------------------ initial state
\* layout.tsx:108-112
LocalInitTodos ==
    << Todo(1, <<"a", " ", "a">>, FALSE, "high"),
       Todo(2, <<"a", " ", "a">>, FALSE, "low"),
       Todo(3, <<"a", " ", "a">>, FALSE, "medium") >>

\* rows left in the table by earlier sessions, newest first
InitTables ==
    { <<>>,
      << Todo(1, <<"a">>, FALSE, "low") >>,
      << Todo(2, <<"a">>, TRUE, "high"), Todo(1, <<"a">>, FALSE, "low") >> }

NoOp == [op |-> "none", id |-> NoSuchId, ok |-> TRUE, alone |-> TRUE,
         before |-> <<>>, row |-> NoRow]

Done(o, i, k, a, b, r) ==
    [op |-> o, id |-> i, ok |-> k, alone |-> a, before |-> b, row |-> r]

Init ==
    /\ variant \in {"remote", "local"}
    /\ IF variant = "remote"
          THEN /\ todos = <<>>
               /\ loading = TRUE
               /\ fetched = "pending"
               /\ table \in InitTables
               /\ nextId = Len(table) + 1
          ELSE /\ todos = LocalInitTodos
               /\ loading = FALSE
               /\ fetched = "none"
               /\ table = <<>>
               /\ nextId = 1
    /\ calls = <<>>
    /\ now = Clock0
    /\ last = NoOp
    /\ last2 = NoOp
    /\ anyFail = FALSE
    /\ anyOverlap = FALSE
    /\ nOps = 0

\* ------------------------------------------------------- list transformers
\* the new row put behind the captured list instead of in front of it
PrependMut(row, list) == list \o <<row>>

\* page.tsx:134
Prepend(row, list) == <<row>> \o list

\* the flag set instead of flipped
ToggleMapMut(list, i) ==
    [k \in DOMAIN list |->
        IF list[k].id = i THEN [list[k] EXCEPT !.done = TRUE] ELSE list[k]]

\* page.tsx:154, layout.tsx:133-135
ToggleMap(list, i) ==
    [k \in DOMAIN list |->
        IF list[k].id = i THEN [list[k] EXCEPT !.done = ~list[k].done]
                          ELSE list[k]]

\* page.tsx:169, layout.tsx:142
FilterOut(list, i) == SelectSeq(list, LAMBDA t : t.id # i)

\* the test made on the raw input, without trim()
IsBlankMut(inputValue) == inputValue = <<>>

\* page.tsx:63, layout.tsx:81
IsBlank(inputValue) == Trim(inputValue) = <<>>

\* the store reported success for call c
StoreOk(c) == c.phase = "ok"

\* the error of the store's answer never thrown
AcceptedMut(c) == TRUE

\* page.tsx:133,152,168: if (error) throw error
Accepted(c) == c.phase # "err"

RemoveAt(s, i) == SubSeq(s, 1, i - 1) \o SubSeq(s, i + 1, Len(s))

\* a handler that starts now overlaps every handler still suspended
Overlapped(cs) == [k \in DOMAIN cs |-> [cs[k] EXCEPT !.alone = FALSE]]

Call(o, i, t, p, v) ==
    [op |-> o, id |-> i, text |-> t, priority |-> p, val |-> v,
     captured |-> todos, phase |-> "sent", data |-> NoRow,
     alone |-> (calls = <<>>)]

Start(c) ==
    /\ calls' = Append(Overlapped(calls), c)
    /\ anyOverlap' = (anyOverlap \/ calls # <<>>)
    /\ nOps' = nOps + 1
    /\ UNCHANGED <<variant, todos, loading, fetched, table, nextId, now,
                   last, last2, anyFail>>

Finish(rec) ==
    /\ last' = rec
    /\ last2' = last

\* ------------------------------------------------ page.tsx: initial fetch
\* the select of page.tsx:107-110 is answered
selectAll(ok) ==
    /\ variant = "remote"
    /\ fetched = "pending"
    /\ fetched' = (IF ok THEN "ok" ELSE "err")
    /\ anyFail' = (anyFail \/ ~ok)
    /\ UNCHANGED <<variant, todos, loading, table, nextId, calls, now,
                   last, last2, anyOverlap, nOps>>

\* page.tsx:112-118
fetchTodos ==
    /\ variant = "remote"
    /\ loading
    /\ fetched \in {"ok", "err"}
    /\ todos' = (IF fetched = "ok" THEN table ELSE todos)
    /\ loading' = FALSE
    /\ UNCHANGED <<variant, fetched, table, nextId, calls, now,
                   last, last2, anyFail, anyOverlap, nOps>>

\* ------------------------------------------------- page.tsx: the handlers
\* the form and the items rendered while the fetch is outstanding
CanStartMut ==
    /\ variant = "remote"
    /\ nOps < MaxOps

CanStart ==
    /\ variant = "remote"
    /\ ~loading                     \* page.tsx:186-192: no form, no items
    /\ nOps < MaxOps

\* page.tsx:61-66 and 125-131
handleSubmit(inputValue, priority) ==
    /\ CanStart
    /\ IF IsBlank(inputValue)
          THEN /\ Finish(Done("reject", NoSuchId, FALSE, calls = <<>>, todos, NoRow))
               /\ nOps' = nOps + 1
               /\ UNCHANGED <<variant, todos, loading, fetched, table, nextId,
                              calls, now, anyFail, anyOverlap>>
          ELSE Start(Call("add", NoSuchId, inputValue, priority, FALSE))

\* page.tsx:141-150
toggleTodo(id) ==
    /\ CanStart
    /\ IF Find(todos, id) = {}
          THEN /\ Finish(Done("toggle", id, TRUE, calls = <<>>, todos, NoRow))
               /\ nOps' = nOps + 1
               /\ UNCHANGED <<variant, todos, loading, fetched, table, nextId,
                              calls, now, anyFail, anyOverlap>>
          ELSE LET todo == todos[CHOOSE k \in Find(todos, id) :
                                   \A j \in Find(todos, id) : k <= j]
               IN  Start(Call("toggle", id, <<>>, "medium", ~todo.done))

\* page.tsx:161-166
deleteTodo(id) ==
    /\ CanStart
    /\ Start(Call("delete", id, <<>>, "medium", FALSE))

\* ------------------------------------------------------ the remote store
Answer(i, ok, row) ==
    /\ calls' = [calls EXCEPT ![i].phase = IF ok THEN "ok" ELSE "err",
                              ![i].data = row]
    /\ anyFail' = (anyFail \/ ~ok)
    /\ UNCHANGED <<variant, todos, loading, fetched, now, last, last2,
                   anyOverlap, nOps>>

\* page.tsx:127-131: insert(...).select().single()
insertRow(i) ==
    /\ i \in DOMAIN calls
    /\ calls[i].op = "add" /\ calls[i].phase = "sent"
    /\ LET row == Todo(nextId, calls[i].text, FALSE, calls[i].priority)
       IN  /\ table' = <<row>> \o table
           /\ nextId' = nextId + 1
           /\ Answer(i, TRUE, row)

\* page.tsx:147-150: update({done}).eq("id", id)
updateDone(i) ==
    /\ i \in DOMAIN calls
    /\ calls[i].op = "toggle" /\ calls[i].phase = "sent"
    /\ table' = [k \in DOMAIN table |->
                    IF table[k].id = calls[i].id
                       THEN [table[k] EXCEPT !.done = calls[i].val]
                       ELSE table[k]]
    /\ nextId' = nextId
    /\ Answer(i, TRUE, NoRow)

\* page.tsx:163-166: delete().eq("id", id)
deleteById(i) ==
    /\ i \in DOMAIN calls
    /\ calls[i].op = "delete" /\ calls[i].phase = "sent"
    /\ table' = SelectSeq(table, LAMBDA t : t.id # calls[i].id)
    /\ nextId' = nextId
    /\ Answer(i, TRUE, NoRow)

\* the store or the transport reports an error: the operation did not happen
storeError(i) ==
    /\ i \in DOMAIN calls
    /\ calls[i].phase = "sent"
    /\ UNCHANGED remoteVars
    /\ Answer(i, FALSE, NoRow)

\* --------------------------------------- page.tsx: after the await returns
Resume(i, list) ==
    /\ todos' = list
    /\ calls' = RemoveAt(calls, i)
    /\ Finish(Done(calls[i].op, calls[i].id, StoreOk(calls[i]), calls[i].alone,
                   calls[i].captured, calls[i].data))
    /\ UNCHANGED <<variant, loading, fetched, table, nextId, now,
                   anyFail, anyOverlap, nOps>>

\* page.tsx:133-137
addTodo(i) ==
    /\ i \in DOMAIN calls
    /\ calls[i].op = "add" /\ calls[i].phase # "sent"
    /\ Resume(i, IF Accepted(calls[i])
                    THEN Prepend(calls[i].data, calls[i].captured)
                    ELSE todos)

\* page.tsx:152-157
toggleTodoPatch(i) ==
    /\ i \in DOMAIN calls
    /\ calls[i].op = "toggle" /\ calls[i].phase # "sent"
    /\ Resume(i, IF Accepted(calls[i])
                    THEN ToggleMap(calls[i].captured, calls[i].id)
                    ELSE todos)

\* page.tsx:168-172
deleteTodoPatch(i) ==
    /\ i \in DOMAIN calls
    /\ calls[i].op = "delete" /\ calls[i].phase # "sent"
    /\ Resume(i, IF Accepted(calls[i])
                    THEN FilterOut(calls[i].captured, calls[i].id)
                    ELSE todos)

\* --------------------------------------------------- layout.tsx: handlers
CanAct ==
    /\ variant = "local"
    /\ nOps < MaxLocal

Local(rec, list) ==
    /\ todos' = list
    /\ Finish(rec)
    /\ nOps' = nOps + 1
    /\ UNCHANGED <<variant, loading, fetched, table, nextId, calls, now,
                   anyFail, anyOverlap>>

\* the clock advances between two events
tick ==
    /\ variant = "local"
    /\ now < MaxClock
    /\ now' = now + 1
    /\ UNCHANGED <<variant, todos, loading, fetched, table, nextId, calls,
                   last, last2, anyFail, anyOverlap, nOps>>

\* the task created already done
newTodoMut(text) == Todo(now, text, TRUE, "medium")

\* layout.tsx:120-128
newTodo(text) == Todo(now, text, FALSE, "medium")

\* layout.tsx:79-84 and 120-128
handleSubmitLocal(inputValue) ==
    /\ CanAct
    /\ IF IsBlank(inputValue)
          THEN Local(Done("reject", NoSuchId, FALSE, TRUE, todos, NoRow), todos)
          ELSE Local(Done("add", now, TRUE, TRUE, todos, newTodo(inputValue)),
                     Append(todos, newTodo(inputValue)))

\* layout.tsx:131-138
toggleTodoLocal(id) ==
    /\ CanAct
    /\ Local(Done("toggle", id, TRUE, TRUE, todos, NoRow), ToggleMap(todos, id))

\* layout.tsx:141-144
deleteTodoLocal(id) ==
    /\ CanAct
    /\ Local(Done("delete", id, TRUE, TRUE, todos, NoRow), FilterOut(todos, id))

\* ---------------------------------------------------------- specification
Clickable == IdsOf(todos) \cup {NoSuchId}

Step(inputs) ==
    \/ \E ok \in BOOLEAN : selectAll(ok)
    \/ fetchTodos
    \/ \E inp \in inputs, p \in FormPriorities : handleSubmit(inp, p)
    \/ \E id \in Clickable : toggleTodo(id)
    \/ \E id \in Clickable : deleteTodo(id)
    \/ \E i \in 1..MaxOps : insertRow(i)
    \/ \E i \in 1..MaxOps : updateDone(i)
    \/ \E i \in 1..MaxOps : deleteById(i)
    \/ \E i \in 1..MaxOps : storeError(i)
    \/ \E i \in 1..MaxOps : addTodo(i)
    \/ \E i \in 1..MaxOps : toggleTodoPatch(i)
    \/ \E i \in 1..MaxOps : deleteTodoPatch(i)
    \/ tick
    \/ \E inp \in inputs : handleSubmitLocal(inp)
    \/ \E id \in Clickable : toggleTodoLocal(id)
    \/ \E id \in Clickable : deleteTodoLocal(id)

Next == Step(Inputs)

Spec == Init /\ [][Next]_vars

\* the same component, with texts one character longer typed into the form
NextTyping == Step(LongInputs)

TypingSpec == Init /\ [][NextTyping]_vars

\* the continuation of a resolved promise is always run
FairSpec == Spec /\ WF_vars(fetchTodos)

\* ------------------------------------------------------------------ claims
Remote == variant = "remote"
Quiet  == Remote /\ ~loading /\ calls = <<>>

\* the last finished invocation ran by itself and the store accepted it
Solo(rec, o) == rec.op = o /\ rec.ok /\ rec.alone

\* C1: remote variant, initial fetch succeeded, no store call failed, no
\* handler started while another was suspended: whenever no call is
\* outstanding the in-memory list is the remote table, row for row, newest
\* first.
C1_ListMirrorsTable ==
    (Quiet /\ fetched = "ok" /\ ~anyFail /\ ~anyOverlap) => todos = table

C1_Witness ==
    /\ Quiet /\ fetched = "ok" /\ ~anyFail /\ ~anyOverlap
    /\ nOps = 2 /\ last.op = "toggle" /\ last.id # NoSuchId
    /\ last2.op = "add" /\ Len(todos) = 2 /\ todos = table

\* C2: remote variant: the step that resumes a handler whose store call
\* failed leaves the in-memory list as it is, and when that handler ran by
\* itself the list after the call is the list before the call.
C2_FailedCallLeavesList ==
    /\ [](((Remote /\ last.op \in {"add", "toggle", "delete"}
              /\ ~last.ok /\ last.alone) => todos = last.before))
    /\ [][\A i \in 1..MaxOps :
            ((addTodo(i) \/ toggleTodoPatch(i) \/ deleteTodoPatch(i))
               /\ calls[i].phase = "err") => todos' = todos]_vars

C2_Witness ==
    /\ Remote /\ last.op = "add" /\ ~last.ok /\ last.alone
    /\ Len(todos) > 0 /\ todos = last.before /\ anyFail

\* C3: no two tasks of the in-memory list carry the same id.
C3_UniqueIds ==
    \A j, k \in DOMAIN todos : todos[j].id = todos[k].id => j = k

\* C4: two toggles of a present id, one right after the other and both
\* accepted, give back the list as it was before the first: the same done
\* flag, every other task and the order untouched.
C4_ToggleTwice ==
    (/\ Solo(last, "toggle") /\ Solo(last2, "toggle")
     /\ last.id = last2.id
     /\ last.id \in IdsOf(last2.before))
    => (/\ todos = last2.before
        /\ last.before # last2.before)

C4_Witness ==
    /\ Remote
    /\ Solo(last, "toggle") /\ Solo(last2, "toggle")
    /\ last.id = last2.id /\ last.id \in IdsOf(last2.before)
    /\ Len(todos) = 2 /\ todos = last2.before

\* C5: an accepted add that ran by itself yields the previous list plus one
\* task with done = false: the store-returned row at the front (remote), a
\* medium-priority task at the end (local); length and active count grow
\* by one.
C5_AddOne ==
    Solo(last, "add") =>
        /\ last.row.done = FALSE
        /\ IF Remote
              THEN /\ todos = <<last.row>> \o last.before
                   /\ last.row.id \notin IdsOf(last.before)
                   /\ last.row.id \in 1..(nextId - 1)
              ELSE /\ todos = last.before \o <<last.row>>
                   /\ last.row.priority = "medium"
        /\ Len(todos) = Len(last.before) + 1
        /\ activeTodosCount(todos) = activeTodosCount(last.before) + 1

C5_Witness ==
    /\ Solo(last, "add") /\ Remote
    /\ Len(last.before) = 2 /\ Head(todos) = last.row /\ last.row.id = 3

\* C6: an accepted delete that ran by itself removes exactly one task when
\* the id is present (length minus one, the rest untouched and in order)
\* and nothing when it is absent.
C6_DeleteOne ==
    Solo(last, "delete") =>
        IF last.id \in IdsOf(last.before)
           THEN /\ Len(todos) = Len(last.before) - 1
                /\ \E k \in DOMAIN last.before :
                      /\ last.before[k].id = last.id
                      /\ todos = RemoveAt(last.before, k)
           ELSE todos = last.before

\* C7: a submit whose text is empty or only whitespace changes neither the
\* in-memory list nor the remote table and sends nothing to the store.
AllWhite(inp) == \A k \in DOMAIN inp : inp[k] \in WhiteSpace

C7_BlankSubmitIgnored ==
    [][\A inp \in LongInputs :
         (AllWhite(inp)
            /\ ((\E p \in FormPriorities : handleSubmit(inp, p))
                  \/ handleSubmitLocal(inp)))
         => (todos' = todos /\ calls' = calls /\ table' = table
             /\ last'.op = "reject")]_vars

C7_Witness ==
    /\ last.op = "reject" /\ Remote
    /\ todos = last.before /\ Len(todos) > 0 /\ calls = <<>>

\* C8: the text of every task is non-empty and has no whitespace at either
\* end.
C8_TextTrimmed ==
    \A k \in DOMAIN todos :
        todos[k].text # <<>> /\ Trim(todos[k].text) = todos[k].text

\* C9 as stated: the remote component starts loading, starts no handler
\* while loading, leaves loading once the fetch has returned, never loads
\* again, and when ready its list reflects a successful fetch.
C9_ReadyMeansFetched ==
    /\ (Remote => loading)
    /\ [](loading => (calls = <<>> /\ nOps = 0))
    /\ ((Remote /\ fetched \in {"ok", "err"}) ~> ~loading)
    /\ [][~loading => ~loading']_vars
    /\ []((Remote /\ ~loading) => fetched = "ok")

\* C9 as amended: as above, but when ready the fetch has returned: the
\* list is the fetched table if the fetch succeeded and the empty initial
\* list if it failed, until a handler patches it.
C9_ReadyMeansReturned ==
    /\ (Remote => loading)
    /\ [](loading => (calls = <<>> /\ nOps = 0 /\ todos = <<>>))
    /\ ((Remote /\ fetched \in {"ok", "err"}) ~> ~loading)
    /\ [][~loading => ~loading']_vars
    /\ []((Remote /\ ~loading) =>
            /\ fetched \in {"ok", "err"}
            /\ (nOps = 0 => todos = (IF fetched = "ok" THEN table ELSE <<>>)))

C9_Witness ==
    /\ Remote /\ ~loading /\ fetched = "err"
    /\ table # <<>> /\ todos = <<>> /\ nOps = 0

\* C10: remote variant, every store call accepted: once no call is
\* outstanding the in-memory list is the remote table, also when handlers
\* overlapped.
C10_QuiescentMirror ==
    (Quiet /\ fetched = "ok" /\ ~anyFail) => todos = table
====
